---- MODULE Spec2Model ----
(***************************************************************************)
(* rfmp: packs the mod in the current directory into                       *)
(* <install_dir>/<name>_<version>.zip (src/src/main.rs).                   *)
(*                                                                         *)
(* Strings are sequences of one-character strings, so that prefixes, glob  *)
(* matching and name comparison are computed character by character.  The  *)
(* token BadByte stands for a byte sequence that is not valid UTF-8 (file  *)
(* names are OsStr, not str).  A path is the sequence of its components as *)
(* std::path::Path::components() yields them.                              *)
(***************************************************************************)
EXTENDS Integers, Sequences, FiniteSets, TLC

VARIABLES
    pc,                 \* position of main: start, info, glob, sweep, purge,
                        \* root, walk, create, write, done, panicked
    run,                \* number of the current invocation of the program
    install_dir_exists, \* mods_target_dir.exists()
    install_dir_listable, \* read_dir(mods_target_dir) succeeds
    keep_old_versions,  \* CliArgs.keep_old_versions
    exclude,            \* CliArgs.exclude, a sequence of paths
    info_json,          \* content of ./info.json: NoInfo or [name, version]
    mods,               \* the install directory: file name -> kind of entry
    tree,               \* the source tree under ".": relative path -> kind
    mod_glob,           \* remove_old_versions: matches not yet iterated
    glob_errors,        \* a GlobError was dropped by the iteration, this run
    walk_stack,         \* WalkDir: stack of lists of entries still to visit
    skip_left,          \* .skip(1): items still to be skipped
    walk_errors,        \* paths whose walkdir::Error was printed and dropped
    zipwriter,          \* ZipArchive: the jobs submitted, in order
    checked,            \* get_target_dir has verified the directory, this run
    info_read,          \* info.json has been opened in this run
    removed,            \* install-directory names deleted in this run
    created,            \* File::create has created or opened the output
    history             \* the finished runs: [result, at, path, mods]

vars == <<pc, run, install_dir_exists, install_dir_listable, keep_old_versions,
          exclude, info_json, mods, tree, mod_glob, glob_errors, walk_stack,
          skip_left, walk_errors, zipwriter, checked, info_read, removed, created, history>>

-----------------------------------------------------------------------------
(* Bounds of the model *)

\* invocations of the program in sequence
MaxRuns == 2
\* length of the --exclude list
MaxExclude == 1

-----------------------------------------------------------------------------
(* Characters and strings *)

BadByte == "<ff>"
Replacement == "<U+FFFD>"
Digits == {"0", "1", "2", "3", "4", "5", "6", "7", "8", "9"}

RECURSIVE SeqToSet(_)
SeqToSet(s) == IF s = <<>> THEN {} ELSE {Head(s)} \cup SeqToSet(Tail(s))

IsPrefix(p, s) == Len(p) <= Len(s) /\ SubSeq(s, 1, Len(p)) = p

\* OsStr::to_str: Some(the string) when it is valid UTF-8, else None
to_str(os) == [some |-> BadByte \notin SeqToSet(os), v |-> os]

\* to_string_lossy: invalid sequences become U+FFFD
to_string_lossy(os) == [i \in 1..Len(os) |-> IF os[i] = BadByte THEN Replacement ELSE os[i]]

foo == <<"f", "o", "o">>
bar == <<"b", "a", "r">>
foo_bar == <<"f", "o", "o", "_", "b", "a", "r">>
bad_name == <<"a", "*", "*">>
v100 == <<"1", ".", "0", ".", "0">>
v123 == <<"1", ".", "2", ".", "3">>
v200 == <<"2", ".", "0", ".", "0">>
us == <<"_">>
dot_zip == <<".", "z", "i", "p">>

-----------------------------------------------------------------------------
(* Paths: std::path components *)

CurDir == <<".">>
RootDir == <<"/">>
EmptySeg == <<>>

\* Path::components of a path written as segments separated by '/': a
\* leading empty segment is the root, a leading "." is kept as CurDir, every
\* other "." and every empty segment (doubled or trailing '/') is dropped.
RECURSIVE NormalSegs(_)
NormalSegs(segs) ==
    IF segs = <<>> THEN <<>>
    ELSE IF Head(segs) = EmptySeg \/ Head(segs) = CurDir THEN NormalSegs(Tail(segs))
    ELSE <<Head(segs)>> \o NormalSegs(Tail(segs))

components(segs) ==
    IF segs = <<>> THEN <<>>
    ELSE IF Head(segs) = EmptySeg THEN
        (IF Len(segs) = 1 THEN <<>> ELSE <<RootDir>> \o NormalSegs(Tail(segs)))
    ELSE IF Head(segs) = CurDir THEN <<CurDir>> \o NormalSegs(Tail(segs))
    ELSE NormalSegs(segs)

\* Path::starts_with: whole components, compared one by one
starts_with(path, base) == IsPrefix(components(base), components(path))

\* Path::join with a relative right-hand side
join(path, rel) == path \o rel

\* Path::strip_prefix("./"): Err when the path does not start with CurDir
strip_prefix(path) ==
    IF starts_with(path, <<CurDir>>)
    THEN [ok |-> TRUE, v |-> Tail(components(path))]
    ELSE [ok |-> FALSE, v |-> <<>>]

-----------------------------------------------------------------------------
(* glob::Pattern, for the file-name component of the pattern *)

\* Result<Pattern, PatternError>
PatternError == [ok |-> FALSE, tokens |-> <<>>]
Cons(tk, rest) == IF rest.ok THEN [ok |-> TRUE, tokens |-> <<tk>> \o rest.tokens] ELSE rest

DigitVal == [c \in Digits |-> CHOOSE n \in 0..9 : ToString(n) = c]

\* CharRange(lo, hi); the patterns of this model hold digit ranges only
CharRange(lo, hi) ==
    IF lo \in Digits /\ hi \in Digits
    THEN {c \in Digits : DigitVal[lo] <= DigitVal[c] /\ DigitVal[c] <= DigitVal[hi]}
    ELSE {lo, hi}

\* parse_char_specifiers: a-b is a range, anything else a single character
RECURSIVE parse_char_specifiers(_)
parse_char_specifiers(cs) ==
    IF cs = <<>> THEN {}
    ELSE IF Len(cs) >= 3 /\ cs[2] = "-"
    THEN CharRange(cs[1], cs[3]) \cup parse_char_specifiers(SubSeq(cs, 4, Len(cs)))
    ELSE {cs[1]} \cup parse_char_specifiers(Tail(cs))

\* number of consecutive '*' from position i
RECURSIVE StarRun(_, _)
StarRun(chars, i) ==
    IF i <= Len(chars) /\ chars[i] = "*" THEN 1 + StarRun(chars, i + 1) ELSE 0

\* position of the first ']' at or after position i, 0 when there is none
RECURSIVE FindClose(_, _)
FindClose(chars, i) ==
    IF i > Len(chars) THEN 0
    ELSE IF chars[i] = "]" THEN i ELSE FindClose(chars, i + 1)

\* Pattern::new from position i.  The component follows a '/', so a "**" is
\* a valid recursive wildcard only when it is the whole component.
RECURSIVE PatternTokens(_, _)
PatternTokens(chars, i) ==
    IF i > Len(chars) THEN [ok |-> TRUE, tokens |-> <<>>]
    ELSE LET c == chars[i] IN
      IF c = "?" THEN
          Cons([t |-> "AnyChar", cs |-> {}], PatternTokens(chars, i + 1))
      ELSE IF c = "*" THEN
          LET n == StarRun(chars, i) IN
          IF n > 2 THEN PatternError
          ELSE IF n = 2 THEN
              (IF i = 1 /\ Len(chars) = 2
               THEN [ok |-> TRUE, tokens |-> <<[t |-> "AnyRecursiveSequence", cs |-> {}]>>]
               ELSE PatternError)
          ELSE Cons([t |-> "AnySequence", cs |-> {}], PatternTokens(chars, i + 1))
      ELSE IF c = "[" /\ i + 3 <= Len(chars) + 1 /\ chars[i + 1] # "!"
                /\ FindClose(chars, i + 2) # 0 THEN
          LET j == FindClose(chars, i + 2) IN
          Cons([t |-> "AnyWithin",
                cs |-> parse_char_specifiers(SubSeq(chars, i + 1, j - 1))],
               PatternTokens(chars, j + 1))
      ELSE Cons([t |-> "Char", cs |-> {c}], PatternTokens(chars, i + 1))

PatternNew(chars) == PatternTokens(chars, 1)

\* Pattern::matches with the default MatchOptions
RECURSIVE Matches(_, _)
Matches(tokens, s) ==
    IF tokens = <<>> THEN s = <<>>
    ELSE LET tk == Head(tokens) IN
      IF tk.t \in {"AnySequence", "AnyRecursiveSequence"} THEN
          \E k \in 0..Len(s) : Matches(Tail(tokens), SubSeq(s, k + 1, Len(s)))
      ELSE /\ s # <<>>
           /\ \/ tk.t = "AnyChar"
              \/ s[1] \in tk.cs
           /\ Matches(Tail(tokens), Tail(s))

\* make_glob_str, the part after "<target_dir>/"
make_glob_str(mod_name) ==
    mod_name \o <<"_", "*", "[", "0", "-", "9", "]", ".", "*", "[", "0", "-", "9", "]",
                  ".", "*", "[", "0", "-", "9", "]", ".", "z", "i", "p">>

-----------------------------------------------------------------------------
(* The install directory *)

\* kinds of directory entry: a regular file whose content is complete
\* ("file") or still being written ("partial"), an empty or non-empty
\* directory, and anything else (fifo, socket, device, link to a device)
ModsKinds == {"absent", "file", "partial", "dir", "dir_nonempty", "other"}

exists(k) == k # "absent"
is_file(k) == k \in {"file", "partial"}
is_dir(k) == k \in {"dir", "dir_nonempty"}

\* InfoJson and its Display impl
InfoJson(name, version) == [ok |-> TRUE, name |-> name, version |-> version]
NoInfo == [ok |-> FALSE, name |-> <<>>, version |-> <<>>]
mod_name_with_version(info) == info.name \o us \o info.version
zip_file_name(info) == mod_name_with_version(info) \o dot_zip

foo_100_zip == foo \o us \o v100 \o dot_zip
foo_123_zip == foo \o us \o v123 \o dot_zip
foo_200_zip == foo \o us \o v200 \o dot_zip
bar_100_zip == bar \o us \o v100 \o dot_zip
foo_bar_100_zip == foo_bar \o us \o v100 \o dot_zip
bad_200_zip == bad_name \o us \o v200 \o dot_zip

ModsNames == {foo_100_zip, foo_123_zip, foo_200_zip, bar_100_zip, foo_bar_100_zip,
              bad_200_zip}

-----------------------------------------------------------------------------
(* The source tree *)

n_build == <<"b", "u", "i", "l", "d">>
n_out == <<"o", "u", "t">>
n_git == <<".", "g", "i", "t">>
n_config == <<"c", "o", "n", "f", "i", "g">>
n_env == <<".", "e", "n", "v">>
n_src == <<"s", "r", "c">>
n_main == <<"m", "a", "i", "n", ".", "t", "x", "t">>
n_link == <<"l", "i", "n", "k">>
n_locked == <<"l", "o", "c", "k", "e", "d">>
n_odd == <<".", BadByte>>
n_w == <<"w">>

\* kinds of source entry: regular file, directory, directory whose listing
\* fails (permission denied), symbolic link whose target is missing
TreeKinds == {"file", "dir", "unreadable_dir", "broken_link"}

root_path == <<CurDir>>

\* DirEntry::file_name: the last component, or the path itself for "."
file_name(path) == path[Len(path)]

KindOf(t, path) == IF path = root_path THEN "dir" ELSE t[path]
Children(t, path) ==
    {q \in DOMAIN t : Len(q) = Len(path) + 1 /\ SubSeq(q, 1, Len(path)) = path}

-----------------------------------------------------------------------------
(* The filter of the directory walk *)

is_filename_eq(filename, rhs) ==
    LET s == to_str(filename) IN s.some /\ s.v = rhs

\* a filter that hides only the name "." itself
is_hidden_exact(path, filename) ==
    /\ components(path) # components(<<CurDir>>)
    /\ LET s == to_str(filename) IN s.some /\ s.v = <<".">>

is_hidden(path, filename) ==
    /\ components(path) # components(<<CurDir>>)
    /\ LET s == to_str(filename) IN s.some /\ IsPrefix(<<".">>, s.v)

is_in_excludes(path, excludes) ==
    \E i \in 1..Len(excludes) : starts_with(path, excludes[i])

walkdir_filter(path, zip_name, excludes) ==
    \/ is_filename_eq(file_name(path), zip_name)
    \/ is_hidden(path, file_name(path))
    \/ is_in_excludes(path, excludes)

-----------------------------------------------------------------------------
(* main *)

args == <<install_dir_exists, install_dir_listable, keep_old_versions, exclude, info_json>>
walk == <<walk_stack, skip_left, walk_errors, zipwriter>>
notes == <<checked, info_read, removed, created, glob_errors>>

target_zip_file == zip_file_name(info_json)

\* a panic (panic!, expect, unwrap) in the call `at`, on `path`, ends the run
\* with the install directory m
Panic(m, at, path) ==
    /\ pc' = "panicked"
    /\ mods' = m
    /\ history' = Append(history, [result |-> "panicked", at |-> at, path |-> path,
                                   mods |-> m])

\* get_target_dir without its test of exists()
get_target_dir_unchecked ==
    /\ pc = "start"
    /\ pc' = "info"
    /\ UNCHANGED <<run, args, mods, tree, mod_glob, walk, notes, history>>

\* let mods_target_dir = get_target_dir(install_dir); install_dir_exists is
\* exists() of the directory the option, the environment or the default names
get_target_dir ==
    /\ pc = "start"
    /\ IF ~install_dir_exists
       THEN Panic(mods, "get_target_dir", <<>>) /\ UNCHANGED checked
       ELSE pc' = "info" /\ checked' = TRUE /\ UNCHANGED <<mods, history>>
    /\ UNCHANGED <<run, args, tree, mod_glob, walk, info_read, removed, created,
                   glob_errors>>

\* let info_json = get_info_json(); followed by the test of keep_old_versions
get_info_json ==
    /\ pc = "info"
    /\ info_read' = TRUE
    /\ IF ~info_json.ok
       THEN Panic(mods, "get_info_json", <<>>)
       ELSE /\ pc' = IF keep_old_versions THEN "purge" ELSE "glob"
            /\ UNCHANGED <<mods, history>>
    /\ UNCHANGED <<run, args, tree, mod_glob, walk, checked, removed, created,
                   glob_errors>>

\* remove_old_versions up to the first iteration: the pattern is built, and
\* the matches are those of the directory listing; a GlobError (the listing
\* failed) is dropped by filter_map(Result::ok)
remove_old_versions_glob ==
    /\ pc = "glob"
    /\ LET pattern == PatternNew(make_glob_str(info_json.name)) IN
       IF ~pattern.ok
       THEN Panic(mods, "glob", <<>>) /\ UNCHANGED <<mod_glob, glob_errors>>
       ELSE LET found == IF install_dir_listable
                         THEN {n \in ModsNames :
                                 exists(mods[n]) /\ Matches(pattern.tokens, n)}
                         ELSE {} IN
            /\ mod_glob' = found
            /\ glob_errors' = (glob_errors \/ ~install_dir_listable)
            /\ pc' = IF found = {} THEN "purge" ELSE "sweep"
            /\ UNCHANGED <<mods, history>>
    /\ UNCHANGED <<run, args, tree, walk, checked, info_read, removed, created>>

\* one iteration of the loop of remove_old_versions
remove_old_versions_entry ==
    /\ pc = "sweep"
    /\ \E entry \in mod_glob :
         /\ mod_glob' = mod_glob \ {entry}
         /\ IF is_file(mods[entry])
            THEN \/ /\ mods' = [mods EXCEPT ![entry] = "absent"]
                    /\ removed' = removed \cup {entry}
                    /\ pc' = IF mod_glob' = {} THEN "purge" ELSE "sweep"
                    /\ UNCHANGED history
                 \/ /\ Panic(mods, "remove_file", <<entry>>)
                    /\ UNCHANGED removed
            ELSE /\ pc' = IF mod_glob' = {} THEN "purge" ELSE "sweep"
                 /\ UNCHANGED <<mods, removed, history>>
    /\ UNCHANGED <<run, args, tree, walk, checked, info_read, created, glob_errors>>

\* if target_zip_file.exists() { ... }
remove_target_zip_file ==
    /\ pc = "purge"
    /\ LET k == mods[target_zip_file] IN
       IF exists(k) /\ is_file(k)
       THEN \/ /\ mods' = [mods EXCEPT ![target_zip_file] = "absent"]
               /\ removed' = removed \cup {target_zip_file}
               /\ pc' = "root"
               /\ UNCHANGED history
            \/ Panic(mods, "remove_file", <<target_zip_file>>) /\ UNCHANGED removed
       ELSE IF exists(k) /\ is_dir(k)
       THEN \/ /\ k = "dir"
               /\ mods' = [mods EXCEPT ![target_zip_file] = "absent"]
               /\ removed' = removed \cup {target_zip_file}
               /\ pc' = "root"
               /\ UNCHANGED history
            \/ Panic(mods, "remove_dir", <<target_zip_file>>) /\ UNCHANGED removed
       ELSE pc' = "root" /\ UNCHANGED <<mods, removed, history>>
    /\ UNCHANGED <<run, args, tree, mod_glob, walk, checked, info_read, created,
                   glob_errors>>

\* zipwriter.add_directory(mod_name_with_version.clone(), None), and the
\* construction of the directory walk
add_root_dir ==
    /\ pc = "root"
    /\ zipwriter' = <<[name |-> <<to_string_lossy(mod_name_with_version(info_json))>>,
                       fs_path |-> <<>>, kind |-> "dir"]>>
    /\ walk_stack' = <<{[path |-> root_path, err |-> FALSE]}>>
    /\ skip_left' = 1
    /\ walk_errors' = {}
    /\ pc' = "walk"
    /\ UNCHANGED <<run, args, mods, tree, mod_glob, notes, history>>

-----------------------------------------------------------------------------
(* make_walkdir_iter and the loop over it *)

\* WalkDir keeps a stack of open directories; the entries of a directory
\* come in the order the file system lists them, which is not specified
RECURSIVE Trim(_)
Trim(st) ==
    IF st # <<>> /\ st[Len(st)] = {} THEN Trim(SubSeq(st, 1, Len(st) - 1)) ELSE st

Top == walk_stack[Len(walk_stack)]
After(item) == Trim([walk_stack EXCEPT ![Len(walk_stack)] = Top \ {item}])

\* a yielded directory is opened next: its entries, or the error of read_dir
Descend(st, path) ==
    LET k == KindOf(tree, path) IN
    IF k = "dir"
    THEN Trim(Append(st, {[path |-> c, err |-> FALSE] : c \in Children(tree, path)}))
    ELSE IF k = "unreadable_dir"
    THEN Append(st, {[path |-> path, err |-> TRUE]})
    ELSE st

Walking == pc = "walk" /\ walk_stack # <<>>

\* path_prefix.join(path.strip_prefix("./")).to_string_lossy()
zipped_name(path) ==
    LET zip_path == join(<<mod_name_with_version(info_json)>>, strip_prefix(path).v) IN
    [i \in 1..Len(zip_path) |-> to_string_lossy(zip_path[i])]

\* Err(e) => { eprintln!(...); None }
walk_error ==
    /\ Walking
    /\ \E item \in Top :
         /\ item.err
         /\ walk_errors' = walk_errors \cup {item.path}
         /\ walk_stack' = After(item)
    /\ UNCHANGED <<pc, run, args, mods, tree, mod_glob, skip_left, zipwriter, notes,
                   history>>

\* filter_entry: the entry is dropped and, if a directory, not descended into
walk_filtered ==
    /\ Walking
    /\ \E item \in Top :
         /\ ~item.err
         /\ walkdir_filter(item.path, zip_file_name(info_json), exclude)
         /\ walk_stack' = After(item)
    /\ UNCHANGED <<pc, run, args, mods, tree, mod_glob, skip_left, walk_errors,
                   zipwriter, notes, history>>

\* .skip(1): the first path that filter_map lets through is dropped
walk_skipped ==
    /\ Walking
    /\ skip_left > 0
    /\ \E item \in Top :
         /\ ~item.err
         /\ ~walkdir_filter(item.path, zip_file_name(info_json), exclude)
         /\ skip_left' = skip_left - 1
         /\ walk_stack' = Descend(After(item), item.path)
    /\ UNCHANGED <<pc, run, args, mods, tree, mod_glob, walk_errors, zipwriter, notes,
                   history>>

\* loop body, if path.is_file() { zipwriter.add_file_from_fs(...) }
zip_file ==
    /\ Walking
    /\ skip_left = 0
    /\ \E item \in Top :
         /\ ~item.err
         /\ ~walkdir_filter(item.path, zip_file_name(info_json), exclude)
         /\ KindOf(tree, item.path) = "file"
         /\ IF ~strip_prefix(item.path).ok
            THEN Panic(mods, "strip_prefix", item.path) /\ UNCHANGED <<walk_stack, zipwriter>>
            ELSE /\ zipwriter' = Append(zipwriter, [name |-> zipped_name(item.path),
                                                    fs_path |-> item.path,
                                                    kind |-> "file"])
                 /\ walk_stack' = After(item)
                 /\ UNCHANGED <<pc, mods, history>>
    /\ UNCHANGED <<run, args, tree, mod_glob, skip_left, walk_errors, notes>>

\* loop body, else if !path.as_os_str().is_empty() {
\*     zipwriter.add_directory_with_metadata_from_fs(...).unwrap() }
\* The call reads fs::metadata(path), which follows links: it fails for a
\* link whose target is missing, for a path deleted since it was listed, and
\* whenever the directory cannot be examined.
zip_directory ==
    /\ Walking
    /\ skip_left = 0
    /\ \E item \in Top :
         /\ ~item.err
         /\ ~walkdir_filter(item.path, zip_file_name(info_json), exclude)
         /\ LET k == KindOf(tree, item.path) IN
            \/ /\ k \in {"dir", "unreadable_dir"}
               /\ strip_prefix(item.path).ok
               /\ zipwriter' = Append(zipwriter, [name |-> zipped_name(item.path),
                                                  fs_path |-> item.path,
                                                  kind |-> "dir"])
               /\ walk_stack' = Descend(After(item), item.path)
               /\ UNCHANGED <<pc, mods, tree, history>>
            \/ /\ k \in {"dir", "unreadable_dir", "broken_link"}
               /\ Panic(mods, "add_directory_with_metadata_from_fs", item.path)
               /\ UNCHANGED <<walk_stack, zipwriter, tree>>
            \/ /\ k = "file"
               /\ tree' = [q \in DOMAIN tree \ {item.path} |-> tree[q]]
               /\ Panic(mods, "add_directory_with_metadata_from_fs", item.path)
               /\ UNCHANGED <<walk_stack, zipwriter>>
    /\ UNCHANGED <<run, args, mod_glob, skip_left, walk_errors, notes>>

-----------------------------------------------------------------------------
(* Writing the archive *)

\* File::create(target_zip_file).expect("Failed to open output file"), once
\* the walk has ended; a new file is empty until the archive is written
create_zip_file ==
    /\ pc = "walk"
    /\ walk_stack = <<>>
    /\ LET k == mods[target_zip_file] IN
       \/ /\ install_dir_exists
          /\ ~is_dir(k)
          /\ mods' = [mods EXCEPT ![target_zip_file] = IF k = "other" THEN k ELSE "partial"]
          /\ created' = TRUE
          /\ pc' = "write"
          /\ UNCHANGED history
       \/ Panic(mods, "File::create", <<target_zip_file>>) /\ UNCHANGED created
    /\ UNCHANGED <<run, args, tree, mod_glob, walk, checked, info_read, removed,
                   glob_errors>>

\* zipwriter.write_with_rayon(&mut zip_file).unwrap()
write_with_rayon ==
    /\ pc = "write"
    /\ \/ LET m == [mods EXCEPT ![target_zip_file] = IF @ = "partial" THEN "file" ELSE @] IN
          /\ pc' = "done"
          /\ mods' = m
          /\ history' = Append(history, [result |-> "done", at |-> "", path |-> <<>>,
                                         mods |-> m])
       \/ Panic(mods, "write_with_rayon", <<target_zip_file>>)
    /\ UNCHANGED <<run, args, tree, mod_glob, walk, notes>>

\* the program is started again, with the same arguments and metadata
rerun ==
    /\ pc \in {"done", "panicked"}
    /\ run < MaxRuns
    /\ run' = run + 1
    /\ pc' = "start"
    /\ mod_glob' = {}
    /\ walk_stack' = <<>>
    /\ skip_left' = 0
    /\ walk_errors' = {}
    /\ zipwriter' = <<>>
    /\ checked' = FALSE
    /\ info_read' = FALSE
    /\ removed' = {}
    /\ created' = FALSE
    /\ glob_errors' = FALSE
    /\ UNCHANGED <<args, mods, tree, history>>

Next ==
    \/ get_target_dir
    \/ get_info_json
    \/ remove_old_versions_glob
    \/ remove_old_versions_entry
    \/ remove_target_zip_file
    \/ add_root_dir
    \/ walk_error
    \/ walk_filtered
    \/ walk_skipped
    \/ zip_file
    \/ zip_directory
    \/ create_zip_file
    \/ write_with_rayon
    \/ rerun

-----------------------------------------------------------------------------
(* Initial states *)

MkTree(entries) == [p \in {e[1] : e \in entries} |-> (CHOOSE e \in entries : e[1] = p)[2]]

TreeHidden ==
    MkTree({<<<<CurDir, n_git>>, "dir">>, <<<<CurDir, n_git, n_config>>, "file">>,
            <<<<CurDir, n_env>>, "file">>, <<<<CurDir, n_src>>, "dir">>,
            <<<<CurDir, n_src, n_main>>, "file">>})
TreeBuild ==
    MkTree({<<<<CurDir, n_build>>, "dir">>, <<<<CurDir, n_build, n_out>>, "file">>,
            <<<<CurDir, n_src>>, "dir">>, <<<<CurDir, n_src, n_main>>, "file">>,
            <<<<CurDir, foo_200_zip>>, "file">>})
TreeLink ==
    MkTree({<<<<CurDir, n_src>>, "dir">>, <<<<CurDir, n_src, n_main>>, "file">>,
            <<<<CurDir, n_link>>, "broken_link">>})
TreeOdd ==
    MkTree({<<<<CurDir, n_odd>>, "file">>, <<<<CurDir, n_locked>>, "unreadable_dir">>,
            <<<<CurDir, n_src>>, "dir">>})
TreeMixed ==
    MkTree({<<<<CurDir, n_env>>, "file">>, <<<<CurDir, n_locked>>, "unreadable_dir">>,
            <<<<CurDir, n_src>>, "dir">>, <<<<CurDir, n_src, n_main>>, "file">>})

Trees == {TreeHidden, TreeBuild, TreeLink, TreeOdd, TreeMixed}

\* the current directory is /w
cwd == <<RootDir, n_w>>

\* --exclude arguments, as segments separated by '/': build, ./build,
\* /w/build, ./build/, ./src/main.txt, src and .
ExcludeChoices ==
    {<<n_build>>, <<CurDir, n_build>>, <<EmptySeg, n_w, n_build>>,
     <<CurDir, n_build, EmptySeg>>, <<CurDir, n_src, n_main>>, <<n_src>>, <<CurDir>>}

ExcludeLists == UNION {[1..n -> ExcludeChoices] : n \in 0..MaxExclude}

Infos == {NoInfo, InfoJson(foo, v200), InfoJson(bad_name, v200)}

\* what the install directory may hold before the first run
InitialKinds(n) ==
    IF n = foo_200_zip THEN {"absent", "file", "dir", "dir_nonempty", "other"}
    ELSE IF n = foo_100_zip THEN {"absent", "file", "dir"}
    ELSE IF n = bad_200_zip THEN {"absent"}
    ELSE {"absent", "file"}

NoMods == [n \in ModsNames |-> "absent"]
ModsSample == [NoMods EXCEPT ![foo_100_zip] = "file", ![foo_200_zip] = "file"]

InitRun ==
    /\ pc = "start"
    /\ run = 1
    /\ mod_glob = {}
    /\ glob_errors = FALSE
    /\ walk_stack = <<>>
    /\ skip_left = 0
    /\ walk_errors = {}
    /\ zipwriter = <<>>
    /\ checked = FALSE
    /\ info_read = FALSE
    /\ removed = {}
    /\ created = FALSE
    /\ history = <<>>

\* every install directory, one source tree
Init ==
    /\ InitRun
    /\ install_dir_exists \in BOOLEAN
    /\ install_dir_listable \in BOOLEAN
    /\ install_dir_exists = FALSE => install_dir_listable = FALSE
    /\ keep_old_versions \in BOOLEAN
    /\ exclude = <<>>
    /\ info_json \in Infos
    /\ mods \in [ModsNames -> ModsKinds]
    /\ \A n \in ModsNames : mods[n] \in InitialKinds(n)
    /\ install_dir_exists = FALSE => mods = NoMods
    /\ tree = TreeMixed

\* every source tree and exclusion list, one install directory
InitWalk ==
    /\ InitRun
    /\ install_dir_exists = TRUE
    /\ install_dir_listable = TRUE
    /\ keep_old_versions = FALSE
    /\ exclude \in ExcludeLists
    /\ info_json \in {InfoJson(foo, v200), InfoJson(bad_name, v200)}
    /\ mods = ModsSample
    /\ tree \in Trees

Spec == Init /\ [][Next]_vars
SpecWalk == InitWalk /\ [][Next]_vars

-----------------------------------------------------------------------------
(* Vocabulary of the properties *)

\* the absolute path a path names, from the current directory
Resolve(path) ==
    LET c == components(path) IN
    IF c # <<>> /\ c[1] = RootDir THEN c
    ELSE IF c # <<>> /\ c[1] = CurDir THEN cwd \o Tail(c)
    ELSE cwd \o c

\* path is the exclusion e, or lies beneath it
Covered(e, path) == IsPrefix(Resolve(e), Resolve(path))

\* the pieces of s between occurrences of the character sep
RECURSIVE Split(_, _)
Split(s, sep) ==
    IF \A i \in 1..Len(s) : s[i] # sep THEN <<s>>
    ELSE LET i == CHOOSE j \in 1..Len(s) :
                    s[j] = sep /\ \A k \in 1..(j - 1) : s[k] # sep IN
         <<SubSeq(s, 1, i - 1)>> \o Split(SubSeq(s, i + 1, Len(s)), sep)

IsNumber(s) == s # <<>> /\ \A i \in 1..Len(s) : s[i] \in Digits

\* n is <mod_name>_<major>.<minor>.<patch>.zip
IsVersionedName(mod_name, n) ==
    LET pre == mod_name \o us IN
    /\ IsPrefix(pre, n)
    /\ Len(n) >= Len(pre) + Len(dot_zip)
    /\ SubSeq(n, Len(n) - Len(dot_zip) + 1, Len(n)) = dot_zip
    /\ LET parts == Split(SubSeq(n, Len(pre) + 1, Len(n) - Len(dot_zip)), ".") IN
       Len(parts) = 3 /\ \A i \in 1..3 : IsNumber(parts[i])

\* the mod a packaged file <name>_<version>.zip belongs to: versions hold no '_'
ModOf(n) ==
    LET last == CHOOSE j \in 1..Len(n) :
                    n[j] = "_" /\ \A k \in (j + 1)..Len(n) : n[k] # "_" IN
    SubSeq(n, 1, last - 1)

\* the regular files of the install directory m that are packaged versions of
\* the mod being packed
Artifacts(m) ==
    {n \in ModsNames : is_file(m[n])
                       /\ (n = target_zip_file \/ IsVersionedName(info_json.name, n))}

LastRun == history[Len(history)]

\* the jobs submitted for entries of the walk, after the root directory job
Walked == IF zipwriter = <<>> THEN <<>> ELSE Tail(zipwriter)

\* some component of the path below "." is valid UTF-8 and begins with '.'
HasDotComponent(path) ==
    \E i \in 2..Len(path) : to_str(path[i]).some /\ IsPrefix(<<".">>, path[i])

-----------------------------------------------------------------------------
(* Properties *)

\* C1: no entry whose path equals a caller-supplied exclusion path (given
\* relative, "./"-prefixed or absolute) or lies beneath an excluded directory
\* is yielded by make_walkdir_iter and submitted to the archive writer.
C1_ExcludedNeverSubmitted ==
    \A i \in 1..Len(Walked) : \A j \in 1..Len(exclude) :
        ~Covered(exclude[j], Walked[i].fs_path)

\* C2: when main is about to submit the first entry (add_directory for the
\* qualified-name root), nothing exists at <install_dir>/<name>_<version>.zip,
\* whatever the install directory held and whatever keep_old_versions is.
C2_OutputPathFreeAtFirstEntry ==
    pc = "root" => mods[target_zip_file] = "absent"

\* C3: when remove_old_versions has run (over a directory that can be
\* listed), every regular file named M_<major>.<minor>.<patch>.zip is gone
\* and no file of a different mod name has been deleted.
C3_SweepExact ==
    (pc = "purge" /\ ~keep_old_versions /\ install_dir_listable) =>
        \A n \in ModsNames :
            /\ IsVersionedName(info_json.name, n) => ~is_file(mods[n])
            /\ ModOf(n) # info_json.name => n \notin removed

\* C4: after two runs in sequence with the same metadata and old-version
\* cleanup enabled, both completed, the install directory holds exactly one
\* artifact of the mod, <name>_<version>.zip, and the artifacts of the mod
\* are the same as after the first run.
C4_TwoRunsOneArtifact ==
    (/\ ~keep_old_versions
     /\ Len(history) >= 2
     /\ history[1].result = "done"
     /\ history[2].result = "done") =>
        /\ Artifacts(history[2].mods) = {target_zip_file}
        /\ Artifacts(history[1].mods) = Artifacts(history[2].mods)

\* C5: if the install directory does not exist the run ends fatally before
\* anything is done: nothing is deleted, info.json is not read, no entry is
\* submitted and no output is created; and in every run the existence check
\* of get_target_dir has passed before any of these happens.
C5_NothingBeforeTargetCheck ==
    /\ ~install_dir_exists =>
          /\ pc \in {"start", "panicked"}
          /\ removed = {} /\ ~info_read /\ zipwriter = <<>> /\ ~created
          /\ mods = NoMods
    /\ (removed # {} \/ info_read \/ zipwriter # <<>> \/ created) => checked

\* a run that has ended in get_target_dir, the install directory missing
C5_Witness ==
    /\ ~install_dir_exists
    /\ pc = "panicked"
    /\ LastRun.at = "get_target_dir"

\* C6: when the run aborts after it has created the output file, no partial
\* file is left at <install_dir>/<name>_<version>.zip.
C6_NoPartialOutputOnAbort ==
    (pc = "panicked" /\ created) => mods[target_zip_file] # "partial"

\* C7: a traversal entry that cannot be examined (a link whose target is
\* missing, an entry deleted after it was listed) does not abort the run.
C7_EntryErrorNeverAborts ==
    (pc = "panicked" /\ LastRun.at = "add_directory_with_metadata_from_fs") =>
        /\ LastRun.path \in DOMAIN tree
        /\ tree[LastRun.path] # "broken_link"

C9_GlobErrorAborts ==
    glob_errors => pc = "panicked"

\* C10: a failure to copy the metadata of a directory entry does not abort
\* the run.
C10_DirMetadataFailureContinues ==
    (pc = "panicked" /\ LastRun.at = "add_directory_with_metadata_from_fs") =>
        ~(LastRun.path \in DOMAIN tree /\ tree[LastRun.path] \in {"dir", "unreadable_dir"})

=============================================================================
